---- MODULE Spec2Model ----
(***************************************************************************)
(* ModTool (python/ettus/rfnoc_modtool/modtool_base.py): detection of an   *)
(* RFNoC module directory and resolution of the paths of its build files.  *)
(*                                                                         *)
(* One ModTool instance, the process working directory and the file system *)
(* are the state.  ModTool.setup is the only entry point; it calls         *)
(* _check_directory, _get_mainswigfile and _setup_files, which are         *)
(* operators on the instance here, composed in the order of the code.      *)
(*                                                                         *)
(* A path is the sequence of its components; an absolute path starts with  *)
(* the component "/".  Python's None is the string "None".                 *)
(***************************************************************************)
EXTENDS Naturals, Sequences, FiniteSets, TLC

VARIABLES
    fs,             \* the file system: directories, regular files, file text
    cwd,            \* the process working directory (os.getcwd())
    dir,            \* self._dir
    has_subdirs,    \* self._has_subdirs
    skip_subdirs,   \* self._skip_subdirs
    info,           \* self._info
    file,           \* self._file
    args,           \* self.args: <<>> until a setup stores it, then <<args>>
    result,         \* how the last setup ended
    check_ret,      \* what _check_directory returned in the last setup
    check_info,     \* self._info as that _check_directory call left it
    mainswig,       \* what _get_mainswigfile returned last in the last setup
    budget          \* setup calls the instance may still receive

vars == <<fs, cwd, dir, has_subdirs, skip_subdirs, info, file, args,
          result, check_ret, check_info, mainswig, budget>>

None == "None"

(***************************************************************************)
(* Bounds of the model.                                                    *)
(***************************************************************************)
MaxCalls == 2       \* setup calls on one instance
MaxDirs  == 1       \* known subdirectories of a module root set up once
MaxFlags == 1       \* --skip-* flags given in one call

(***************************************************************************)
(* Paths and the file system.                                              *)
(***************************************************************************)
\* os.path.join(a, b) for a relative b; joining None raises TypeError,
\* which the callers test for before they join.
join(a, b) == a \o b

isabs(p) == Len(p) > 0 /\ p[1] = "/"

\* os.path.abspath: relative to the working directory, "." removed
abspath(wd, p) ==
    SelectSeq(IF isabs(p) THEN p ELSE wd \o p, LAMBDA c : c # ".")

isdir(f, wd, p) == abspath(wd, p) \in f.dirs

isfile(f, wd, p) == abspath(wd, p) \in f.files

\* os.listdir(p): the names of the children of directory p
listdir(f, wd, p) ==
    LET a == abspath(wd, p)
    IN  { q[Len(q)] : q \in { x \in f.dirs \cup f.files :
                                /\ Len(x) = Len(a) + 1
                                /\ SubSeq(x, 1, Len(a)) = a } }

\* open(p).read(), as the set of the markers the text contains
read(f, wd, p) == f.text[abspath(wd, p)]

\* d[k] = v
Put(d, k, v) == [x \in DOMAIN d \cup {k} |-> IF x = k THEN v ELSE d[x]]

(***************************************************************************)
(* The file systems of the model.  /work is where the process starts; it   *)
(* holds the candidate module root /work/mod, which may hold a nested      *)
(* directory mod of its own.  The files of a root are those of a module    *)
(* named foo.                                                              *)
(***************************************************************************)
subdirs == {"lib", "include", "python", "swig", "grc", "examples", "rfnoc"}

FindPackage == "find_package(Gnuradio"
RegisterComponent == "GR_REGISTER_COMPONENT"
Markers == {FindPackage, RegisterComponent}

Work  == <<"/", "work">>
Outer == <<"/", "work", "mod">>
Inner == <<"/", "work", "mod", "mod">>

\* What a root holds: cmake is <<>> (no CMakeLists.txt) or <<text>>.
Layouts ==
    { c \in [ cmake : {<<>>} \cup { <<t>> : t \in SUBSET Markers },
              dirs  : { D \in SUBSET subdirs : Cardinality(D) <= MaxDirs },
              swig  : SUBSET {"foo.i", "foo_swig.i"},
              inc   : SUBSET { <<"foo">>, <<"gnuradio", "foo">> },
              py    : SUBSET { <<"foo">> } ] :
        /\ c.swig # {} => "swig" \in c.dirs
        /\ c.inc # {} => "include" \in c.dirs
        /\ c.py # {} => "python" \in c.dirs }

\* Two complete modules: a module with every subdirectory and a component.
FullModule ==
    [cmake |-> <<{FindPackage}>>, dirs |-> subdirs,
     swig |-> {"foo.i", "foo_swig.i"}, inc |-> {<<"foo">>},
     py |-> {<<"foo">>}]

Component ==
    [cmake |-> <<{RegisterComponent}>>,
     dirs |-> {"lib", "include", "swig", "grc"},
     swig |-> {"foo_swig.i"}, inc |-> {<<"gnuradio", "foo">>}, py |-> {}]

Tree(base, c) ==
    [ dirs  |-> {base}
                \cup { base \o <<d>> : d \in c.dirs }
                \cup { base \o <<"include">> \o p : p \in c.inc }
                \cup { base \o <<"include", "gnuradio">> :
                         p \in c.inc \cap { <<"gnuradio", "foo">> } }
                \cup { base \o <<"python">> \o p : p \in c.py },
      files |-> { base \o <<"CMakeLists.txt">> : i \in DOMAIN c.cmake }
                \cup { base \o <<"swig", n>> : n \in c.swig },
      text  |-> [ p \in { base \o <<"CMakeLists.txt">> : i \in DOMAIN c.cmake }
                  |-> c.cmake[1] ] ]

MkFs(outer, nested) ==
    LET o == Tree(Outer, outer)
        n == IF nested = <<>> THEN [dirs |-> {}, files |-> {}, text |-> <<>>]
             ELSE Tree(Inner, nested[1])
    IN  [ dirs  |-> {<<"/">>, Work} \cup o.dirs \cup n.dirs,
          files |-> o.files \cup n.files,
          text  |-> o.text @@ n.text ]

\* the nested directory mod, when there is one, is a component
Nestings == { <<>>, <<Component>> }

\* every layout within the bounds
FileSystems == { MkFs(o, n) : o \in Layouts, n \in Nestings }

\* the complete modules: a module that holds a component, and a component
ModuleFileSystems == { MkFs(FullModule, <<Component>>), MkFs(Component, <<>>) }

(***************************************************************************)
(* ModTool.  An instance is the record self of its attributes, together    *)
(* with the working directory of the process, which _check_directory       *)
(* changes.                                                                *)
(***************************************************************************)
\* __init__ (self.parser is the argument parser, which holds no state here)
init_self ==
    [ cwd          |-> Work,
      dir          |-> None,
      has_subdirs  |-> [d \in subdirs |-> FALSE],
      skip_subdirs |-> [d \in subdirs |-> FALSE],
      info         |-> <<>>,
      file         |-> <<>>,
      args         |-> <<>> ]

\* cmake_kind with the two tests in the other order
cmake_kind_component_first(text) ==
    IF RegisterComponent \in text THEN "component"
    ELSE IF FindPackage \in text THEN "module"
    ELSE "none"

\* The branch of the CMakeLists.txt test that the text takes:
\* re.search(r'find_package\(Gnuradio', ...) first, GR_REGISTER_COMPONENT next.
cmake_kind(text) ==
    IF FindPackage \in text THEN "module"
    ELSE IF RegisterComponent \in text THEN "component"
    ELSE "none"

\* bool(has_makefile and (self._has_subdirs.values())): the second operand
\* is the collection of the values, which is true when it is not empty.
check_verdict(has_makefile, has) ==
    has_makefile /\ (DOMAIN has # {})

\* _check_directory(directory): <<return value, instance afterwards>>
check_directory(self, f, directory) ==
    IF ~isdir(f, self.cwd, directory)
    THEN \* os.listdir or os.chdir raised OSError
         [ret |-> FALSE, self |-> self]
    ELSE
    LET files == listdir(f, self.cwd, directory)
        wd    == abspath(self.cwd, directory)              \* os.chdir
        kind  == IF /\ "CMakeLists.txt" \in files
                    /\ isfile(f, wd, <<"CMakeLists.txt">>)
                 THEN cmake_kind(read(f, wd, <<"CMakeLists.txt">>))
                 ELSE "none"
        dirs  == { n \in files :
                     /\ ~(isfile(f, wd, <<n>>) /\ n = "CMakeLists.txt")
                     /\ isdir(f, wd, <<n>>) }
        has_makefile == kind # "none"
        info0 == Put(self.info, "is_component", FALSE)
        info1 == IF kind = "module" THEN Put(info0, "version", "36")
                 ELSE IF kind = "component"
                 THEN Put(Put(info0, "version", "36"), "is_component", TRUE)
                 ELSE info0
        has   == [d \in DOMAIN self.has_subdirs |->
                    self.has_subdirs[d] \/ d \in dirs]
        known == DOMAIN self.has_subdirs
        skip  == [d \in DOMAIN self.skip_subdirs \cup (dirs \ known) |->
                    IF d \in dirs \ known THEN TRUE
                    ELSE self.skip_subdirs[d]]
    IN  [ret  |-> check_verdict(has_makefile, has),
         self |-> [self EXCEPT !.cwd = wd, !.info = info1,
                               !.has_subdirs = has, !.skip_subdirs = skip]]

\* _get_mainswigfile(): the first of MODNAME.i, MODNAME_swig.i that is a
\* regular file at os.path.join(self._dir, 'swig', fname), else None
get_mainswigfile(self, f) ==
    LET modname    == self.info["modname"]
        swig_files == << modname \o ".i", modname \o "_swig.i" >>
        found == { i \in DOMAIN swig_files :
                     isfile(f, self.cwd,
                            join(join(self.dir, <<"swig">>), <<swig_files[i]>>)) }
    IN  IF found = {} THEN None
        ELSE swig_files[CHOOSE i \in found : \A j \in found : i <= j]

\* upgrade_version looking at include/MODNAME only
upgrade_version_one_dir(self, f) ==
    IF /\ self.info["version"] = "36"
       /\ isdir(f, self.cwd, join(<<"include">>, <<self.info["modname"]>>))
    THEN [self EXCEPT !.info = Put(self.info, "version", "37")]
    ELSE self

\* setup, lines 124-127: a '36' module with a per-module include directory
\* is a '37' module
upgrade_version(self, f) ==
    LET modname == self.info["modname"]
    IN  IF /\ self.info["version"] = "36"
           /\ \/ isdir(f, self.cwd, join(<<"include">>, <<modname>>))
              \/ isdir(f, self.cwd,
                       join(join(<<"include">>, <<"gnuradio">>), <<modname>>))
        THEN [self EXCEPT !.info = Put(self.info, "version", "37")]
        ELSE self

\* swig_skipped without the test of the main interface file
swig_skipped_unresolved(self, f, a) ==
    a.skip_swig \/ ~self.has_subdirs["swig"]

\* setup, line 132: the condition under which the swig stage is skipped;
\* _get_mainswigfile is not called when --skip-swig is given
swig_skipped(self, f, a) ==
    \/ a.skip_swig
    \/ get_mainswigfile(self, f) = None
    \/ ~self.has_subdirs["swig"]

\* setup, lines 128-139: the skip flags are only ever set, never cleared
derive_skips(self, f, a) ==
    LET set == { d \in subdirs :
                   \/ d = "lib"      /\ (a.skip_lib \/ ~self.has_subdirs["lib"])
                   \/ d = "python"   /\ (a.skip_python \/ ~self.has_subdirs["python"])
                   \/ d = "swig"     /\ swig_skipped(self, f, a)
                   \/ d = "grc"      /\ (a.skip_grc \/ ~self.has_subdirs["grc"])
                   \/ d = "examples" /\ (a.skip_grc \/ ~self.has_subdirs["examples"])
                   \/ d = "rfnoc"    /\ (a.skip_grc \/ ~self.has_subdirs["grc"]) }
    IN  [self EXCEPT !.skip_subdirs =
            [d \in DOMAIN self.skip_subdirs |->
                IF d \in set THEN TRUE ELSE self.skip_subdirs[d]]]

\* _setup_files, lines 150-152
python_dir(self, f) ==
    IF isdir(f, self.cwd, join(<<"python">>, <<self.info["modname"]>>))
    THEN join(<<"python">>, <<self.info["modname"]>>)
    ELSE <<"python">>

\* include_dir with the version test before the component test
include_dir_version_first(i) ==
    IF i["version"] = "37"
    THEN join(<<"include">>, <<i["modname"]>>)
    ELSE IF i["is_component"]
    THEN join(join(<<"include">>, <<"gnuradio">>), <<i["modname"]>>)
    ELSE <<"include">>

\* _setup_files, lines 158-163
include_dir(i) ==
    IF i["is_component"]
    THEN join(join(<<"include">>, <<"gnuradio">>), <<i["modname"]>>)
    ELSE IF i["version"] = "37"
    THEN join(<<"include">>, <<i["modname"]>>)
    ELSE <<"include">>

\* writes_swig without the guard: the entry is written in any case
writes_swig_unguarded(skip) == TRUE

\* _setup_files, line 148: whether self._file['swig'] is written
writes_swig(skip) == ~skip["swig"]

\* _setup_files(): <<exception raised or None, instance afterwards>>.
\* os.path.join('swig', None) raises TypeError before anything is written.
setup_files(self, f) ==
    LET main == get_mainswigfile(self, f)
    IN
    IF writes_swig(self.skip_subdirs) /\ main = None
    THEN [raised |-> "TypeError", self |-> self]
    ELSE
    LET file0 == IF writes_swig(self.skip_subdirs)
                 THEN Put(self.file, "swig", join(<<"swig">>, <<main>>))
                 ELSE self.file
        pydir == python_dir(self, f)
        info1 == Put(self.info, "pydir", pydir)
        file1 == Put(file0, "qalib",
                     join(<<"lib">>, <<"qa_" \o info1["modname"] \o ".cc">>))
        file2 == Put(file1, "pyinit", join(pydir, <<"__init__.py">>))
        file3 == Put(file2, "cmlib", join(<<"lib">>, <<"CMakeLists.txt">>))
        file4 == Put(file3, "cmgrc", join(<<"grc">>, <<"CMakeLists.txt">>))
        file5 == Put(file4, "cmpython", join(pydir, <<"CMakeLists.txt">>))
        info2 == Put(info1, "includedir", include_dir(info1))
        file6 == Put(file5, "cminclude",
                     join(info2["includedir"], <<"CMakeLists.txt">>))
        file7 == Put(file6, "cmswig", join(<<"swig">>, <<"CMakeLists.txt">>))
        file8 == Put(file7, "cmfind",
                     <<"cmake", "Modules", "rfnoc_exampleConfig.cmake">>)
    IN  [raised |-> None,
         self   |-> [self EXCEPT !.info = info2, !.file = file8]]

\* setup(args, positional); got is what get_modname() returns when it is
\* asked.  The outcome: how setup ended, what _check_directory returned
\* and left in self._info, what _get_mainswigfile returned, and the
\* instance afterwards.  _setup_scm
\* (line 144) builds self.scm from self.args and touches nothing else.
setup(self, f, a, got) ==
    LET s0  == [self EXCEPT !.dir = a.directory,
                            !.info = Put(self.info, "modpath",
                                         abspath(self.cwd, a.directory))]
        chk == check_directory(s0, f, s0.dir)
    IN
    IF ~chk.ret
    THEN [result |-> "ModToolException", check_ret |-> "False",
          check_info |-> chk.self.info,
          mainswig |-> "uncalled", self |-> chk.self]
    ELSE
    LET modname == IF a.module_name # None THEN a.module_name ELSE got
        s1 == [chk.self EXCEPT !.info = Put(chk.self.info, "modname", modname)]
    IN
    IF modname = None
    THEN [result |-> "ModToolException", check_ret |-> "True",
          check_info |-> chk.self.info,
          mainswig |-> "uncalled", self |-> s1]
    ELSE
    LET s2 == upgrade_version(s1, f)
        s3 == derive_skips(s2, f, a)
        s4 == [s3 EXCEPT !.info = Put(s3.info, "blockname", a.block_name)]
        sf == setup_files(s4, f)
        main == IF a.skip_swig THEN "uncalled" ELSE get_mainswigfile(s4, f)
    IN
    IF sf.raised # None
    THEN [result |-> sf.raised, check_ret |-> "True",
          check_info |-> chk.self.info,
          mainswig |-> main, self |-> sf.self]
    ELSE [result |-> "ok", check_ret |-> "True",
          check_info |-> chk.self.info, mainswig |-> main,
          self |-> [sf.self EXCEPT !.info = Put(sf.self.info, "yes", a.yes),
                                   !.args = <<a>>]]

(***************************************************************************)
(* The arguments of a call: the parser's options (setup_parser), with at   *)
(* most MaxFlags of the --skip-* flags given.                              *)
(***************************************************************************)
SkipFlags == {"skip_lib", "skip_swig", "skip_python", "skip_grc",
              "skip_examples", "skip_rfnoc"}

Directories == { <<".">>, Outer, <<"mod">> }

\* --module-name: not given, or a name the module has no files of
ModuleNames == { None, "bar" }

Arguments ==
    { [ directory     |-> d,
        module_name   |-> n,
        block_name    |-> None,
        skip_lib      |-> "skip_lib" \in F,
        skip_swig     |-> "skip_swig" \in F,
        skip_python   |-> "skip_python" \in F,
        skip_grc      |-> "skip_grc" \in F,
        skip_examples |-> "skip_examples" \in F,
        skip_rfnoc    |-> "skip_rfnoc" \in F,
        yes           |-> FALSE ] :
      d \in Directories, n \in ModuleNames,
      F \in { G \in SUBSET SkipFlags : Cardinality(G) <= MaxFlags } }

\* what get_modname() finds in the CMakeLists.txt of the working directory
DetectedNames == { None, "foo" }

(***************************************************************************)
(* The state machine: one instance and the setup calls made on it.  A      *)
(* directory of any layout within the bounds is set up once; the complete  *)
(* modules are set up up to MaxCalls times on the same instance.           *)
(***************************************************************************)
Init ==
    /\ \/ fs \in FileSystems /\ budget = 1
       \/ fs \in ModuleFileSystems /\ budget = MaxCalls
    /\ cwd = init_self.cwd
    /\ dir = init_self.dir
    /\ has_subdirs = init_self.has_subdirs
    /\ skip_subdirs = init_self.skip_subdirs
    /\ info = init_self.info
    /\ file = init_self.file
    /\ args = init_self.args
    /\ result = "none"
    /\ check_ret = "uncalled"
    /\ check_info = <<>>
    /\ mainswig = "uncalled"

Self ==
    [ cwd |-> cwd, dir |-> dir, has_subdirs |-> has_subdirs,
      skip_subdirs |-> skip_subdirs, info |-> info, file |-> file,
      args |-> args ]

Setup ==
    /\ budget > 0
    /\ \E a \in Arguments :
       \E got \in IF a.module_name = None THEN DetectedNames ELSE {None} :
       \E out \in { setup(Self, fs, a, got) } :
          /\ cwd' = out.self.cwd
          /\ dir' = out.self.dir
          /\ has_subdirs' = out.self.has_subdirs
          /\ skip_subdirs' = out.self.skip_subdirs
          /\ info' = out.self.info
          /\ file' = out.self.file
          /\ args' = out.self.args
          /\ result' = out.result
          /\ check_ret' = out.check_ret
          /\ check_info' = out.check_info
          /\ mainswig' = out.mainswig
    /\ budget' = budget - 1
    /\ UNCHANGED fs

Next == Setup

Spec == Init /\ [][Next]_vars

(***************************************************************************)
(* What the file system holds at the module root of the last call, and     *)
(* what the call was given.                                                *)
(***************************************************************************)
Root == info["modpath"]

ModName == info["modname"]

RootIsDir == Root \in fs.dirs

RootText ==
    IF Root \o <<"CMakeLists.txt">> \in fs.files
    THEN fs.text[Root \o <<"CMakeLists.txt">>]
    ELSE {}

RootSubdirs == { d \in subdirs : Root \o <<d>> \in fs.dirs }

RootHasDir(p) == Root \o p \in fs.dirs

RootHasFile(p) == Root \o p \in fs.files

\* the main interface file of module ModName inside the root
MainInterface ==
    IF RootHasFile(<<"swig", ModName \o ".i">>) THEN ModName \o ".i"
    ELSE IF RootHasFile(<<"swig", ModName \o "_swig.i">>)
    THEN ModName \o "_swig.i"
    ELSE None

\* the --skip-* flag of a stage in the stored arguments (include has none)
UserFlag(d) ==
    CASE d = "lib"      -> args[1].skip_lib
      [] d = "python"   -> args[1].skip_python
      [] d = "swig"     -> args[1].skip_swig
      [] d = "grc"      -> args[1].skip_grc
      [] d = "examples" -> args[1].skip_examples
      [] d = "rfnoc"    -> args[1].skip_rfnoc
      [] OTHER          -> FALSE

\* the stage that owns an entry of self._file
Owner(k) ==
    CASE k \in {"swig", "cmswig"}    -> "swig"
      [] k \in {"qalib", "cmlib"}    -> "lib"
      [] k \in {"pyinit", "cmpython"} -> "python"
      [] k = "cmgrc"                 -> "grc"
      [] k = "cminclude"             -> "include"

StageEntries == {"swig", "qalib", "pyinit", "cmlib", "cmgrc", "cmpython",
                 "cminclude", "cmswig"}

Called == budget' # budget

(***************************************************************************)
(* C1: _check_directory succeeds if and only if the root holds a           *)
(* CMakeLists.txt with a build marker and at least one of the known        *)
(* subdirectories; in every other case setup raises ModToolException.      *)
(***************************************************************************)
C1_DetectIffMarkerAndSubdir ==
    result # "none" =>
        /\ check_ret = "True" <=>
              (RootIsDir /\ RootText \cap Markers # {} /\ RootSubdirs # {})
        /\ check_ret = "False" => result = "ModToolException"

(***************************************************************************)
(* C3: after a successful setup every stage's skip flag is derived from    *)
(* the stage's own user flag and the absence of its own subdirectory       *)
(* (and, for swig, of a main interface file): an absent subdirectory       *)
(* means a skipped stage.                                                  *)
(***************************************************************************)
C3_SkipFromOwnFlagAndPresence ==
    result = "ok" =>
        \A d \in subdirs :
            skip_subdirs[d] <=>
                \/ UserFlag(d)
                \/ d \notin RootSubdirs
                \/ d = "swig" /\ MainInterface = None

(***************************************************************************)
(* C4: _get_mainswigfile returns N.i if swig/N.i is a file inside the      *)
(* module root, else N_swig.i if swig/N_swig.i is one, else None, however  *)
(* the root directory was given.                                           *)
(***************************************************************************)
C4_MainSwigFileOfRoot ==
    mainswig # "uncalled" => mainswig = MainInterface

(***************************************************************************)
(* C8: the file set is a function of the module info, the subdirectories   *)
(* present and the skip flags alone: it is what _setup_files computes from *)
(* them starting from an empty file set.                                   *)
(***************************************************************************)
C8_FileSetIsPure ==
    result = "ok" =>
        file = setup_files([Self EXCEPT !.file = <<>>], fs).self.file

(***************************************************************************)
(* C9: a _check_directory call that returns False leaves the working       *)
(* directory of the process as it was.                                     *)
(***************************************************************************)
C9_RejectKeepsCwd ==
    [][Called /\ check_ret' = "False" => cwd' = cwd]_vars

(***************************************************************************)
(* C2, as stated: in every state after setup/_setup_files an entry of the  *)
(* file set is populated only if the skip flag of its owning stage is      *)
(* false.                                                                  *)
(***************************************************************************)
C2_EntryOnlyIfStageActive ==
    result = "ok" =>
        \A k \in StageEntries \cap DOMAIN file : ~skip_subdirs[Owner(k)]

SwigEntry(f) == IF "swig" \in DOMAIN f THEN f["swig"] ELSE <<>>

(***************************************************************************)
(* C2, amended: a successful setup populates qalib, pyinit, cmlib, cmgrc,  *)
(* cmpython, cminclude and cmswig whatever the skip flags are; only the    *)
(* swig entry depends on a skip flag: it is written when and only when     *)
(* the swig stage is not skipped, and is otherwise left as it was.         *)
(***************************************************************************)
C2_OnlySwigEntryIsConditional ==
    [][Called /\ result' = "ok" =>
          /\ StageEntries \ {"swig"} \subseteq DOMAIN file'
          /\ skip_subdirs'["swig"] => SwigEntry(file') = SwigEntry(file)
          /\ ~skip_subdirs'["swig"] => "swig" \in DOMAIN file']_vars

\* a skipped lib stage whose entries are populated, and no swig entry for
\* the skipped swig stage
C2_Witness ==
    /\ result = "ok"
    /\ skip_subdirs["lib"] /\ {"qalib", "cmlib"} \subseteq DOMAIN file
    /\ skip_subdirs["swig"] /\ "swig" \notin DOMAIN file
    /\ "swig" \in RootSubdirs

(***************************************************************************)
(* C5: for a root whose CMakeLists.txt holds the package-find marker and   *)
(* that has a known subdirectory, _check_directory succeeds with version   *)
(* '36' and is_component False, also when the file holds the component     *)
(* marker too; is_component is True only for a file with the component     *)
(* marker and without the package-find marker.                             *)
(***************************************************************************)
C5_FindPackageWins ==
    result # "none" =>
        /\ (RootIsDir /\ FindPackage \in RootText /\ RootSubdirs # {}) =>
              /\ check_ret = "True"
              /\ check_info["version"] = "36"
              /\ ~check_info["is_component"]
        /\ (RootIsDir /\ check_info["is_component"]) =>
              (RegisterComponent \in RootText /\ FindPackage \notin RootText)

\* a CMakeLists.txt with both markers, detected as a plain module
C5_Witness ==
    /\ result = "ok"
    /\ RootText = Markers
    /\ RootSubdirs # {}
    /\ check_ret = "True"
    /\ ~check_info["is_component"]

(***************************************************************************)
(* C6: in a successful setup the version, '36' after detection, becomes    *)
(* '37' if and only if include/N or include/gnuradio/N is a directory of   *)
(* the root, and the include directory computed in the same setup is the   *)
(* one of the upgraded version.                                            *)
(***************************************************************************)
C6_UpgradeBeforeFiles ==
    result = "ok" =>
        /\ check_info["version"] = "36"
        /\ info["version"] \in {"36", "37"}
        /\ info["version"] = "37" <=>
              \/ RootHasDir(<<"include", ModName>>)
              \/ RootHasDir(<<"include", "gnuradio", ModName>>)
        /\ ~info["is_component"] =>
              info["includedir"] =
                  IF info["version"] = "37" THEN <<"include", ModName>>
                  ELSE <<"include">>

\* upgraded by include/gnuradio/N alone, and the include directory follows
C6_Witness ==
    /\ result = "ok"
    /\ ~RootHasDir(<<"include", ModName>>)
    /\ RootHasDir(<<"include", "gnuradio", ModName>>)
    /\ ~info["is_component"]
    /\ info["version"] = "37"
    /\ info["includedir"] = <<"include", ModName>>

(***************************************************************************)
(* C7: _setup_files sets includedir to include/gnuradio/N for a component  *)
(* whatever the version, else to include/N for version '37', else to       *)
(* include; cminclude is includedir/CMakeLists.txt.                        *)
(***************************************************************************)
C7_IncludeDir ==
    result = "ok" =>
        /\ info["is_component"] =>
              info["includedir"] = <<"include", "gnuradio", ModName>>
        /\ (~info["is_component"] /\ info["version"] = "37") =>
              info["includedir"] = <<"include", ModName>>
        /\ (~info["is_component"] /\ info["version"] # "37") =>
              info["includedir"] = <<"include">>
        /\ file["cminclude"] = info["includedir"] \o <<"CMakeLists.txt">>

\* a component of version '37'
C7_Witness ==
    /\ result = "ok"
    /\ info["is_component"]
    /\ info["version"] = "37"
    /\ file["cminclude"] = <<"include", "gnuradio", "foo", "CMakeLists.txt">>

(***************************************************************************)
(* C10: a missing main interface file never makes setup fail: setup marks  *)
(* the swig stage skipped and _setup_files creates no swig entry; and      *)
(* whenever the swig stage is not skipped, _get_mainswigfile returned a    *)
(* file name and the swig entry is swig/<that name>.                       *)
(***************************************************************************)
C10_MissingInterfaceSkipsSwig ==
    [][Called =>
          /\ result' # "TypeError"
          /\ (check_ret' = "True" /\ info'["modname"] # None) => result' = "ok"
          /\ (result' = "ok" /\ mainswig' = None) =>
                /\ skip_subdirs'["swig"]
                /\ SwigEntry(file') = SwigEntry(file)
          /\ (result' = "ok" /\ ~skip_subdirs'["swig"]) =>
                /\ mainswig' \notin {None, "uncalled"}
                /\ file'["swig"] = <<"swig", mainswig'>>]_vars

\* a swig directory without a main interface file, in a setup that succeeds
C10_Witness ==
    /\ result = "ok"
    /\ has_subdirs["swig"]
    /\ mainswig = None
    /\ skip_subdirs["swig"]
    /\ "swig" \notin DOMAIN file

====
